---- MODULE Spec2Model ----
(***************************************************************************)
(* Model of src/Public/app.py: a Flask application with four template      *)
(* routes, the prediction endpoint /api/predict and the export endpoint    *)
(* /api/export.                                                            *)
(*                                                                         *)
(* Numbers are exact rationals n/d (d > 0); NaN is kept as a value of its  *)
(* own because Python's comparisons, min and max treat it specially.       *)
(* A request is served in three steps: the framework receives it, the view *)
(* function of its route runs as one atomic step, the framework tears the  *)
(* request context down.  stdout is the only thing a view writes outside   *)
(* its own response.                                                       *)
(***************************************************************************)
EXTENDS Integers, Sequences, FiniteSets, TLC

VARIABLES pc, request, response, stdout

vars == <<pc, request, response, stdout>>

(* ------------------------------ bounds -------------------------------- *)

\* signal lengths 0 and MinSignalLen - Slack .. MinSignalLen + Slack
Slack == 1
\* a signal holds at most MaxOdd samples of a second value (or half of it)
MaxOdd == 2
\* the samples list of an export body has 0 .. MaxSamples records
MaxSamples == 2

(* --------------------------- JSON values ------------------------------ *)

Num(n, d) == [t |-> "num", n |-> n, d |-> d]
IntVal(n) == Num(n, 1)
NaN == [t |-> "nan"]
Str == [t |-> "str"]
None == [t |-> "null"]
List(s) == [t |-> "list", v |-> s]

\* int or float, the operands Python's arithmetic and ordering accept
IsNumber(x) == x.t \in {"num", "nan"}
\* a number that is not NaN
IsReal(x) == x.t = "num"

(* ---------------------- Python's number semantics --------------------- *)

\* a < b; False whenever an operand is NaN
lt(a, b) == IsReal(a) /\ IsReal(b) /\ a.n * b.d < b.n * a.d
\* a <= b
le(a, b) == IsReal(a) /\ IsReal(b) /\ a.n * b.d <= b.n * a.d
\* a >= b
ge(a, b) == le(b, a)
\* a == b on numbers
eq(a, b) == IsReal(a) /\ IsReal(b) /\ a.n * b.d = b.n * a.d

add(a, b) ==
    IF ~IsReal(a) \/ ~IsReal(b) THEN NaN
    ELSE IF a.d = b.d THEN Num(a.n + b.n, a.d)
    ELSE Num(a.n * b.d + b.n * a.d, a.d * b.d)

sub(a, b) ==
    IF ~IsReal(a) \/ ~IsReal(b) THEN NaN
    ELSE IF a.d = b.d THEN Num(a.n - b.n, a.d)
    ELSE Num(a.n * b.d - b.n * a.d, a.d * b.d)

mul(a, b) ==
    IF ~IsReal(a) \/ ~IsReal(b) THEN NaN
    ELSE Num(a.n * b.n, a.d * b.d)

\* a / k for a positive int k
div(a, k) == IF ~IsReal(a) THEN NaN ELSE Num(a.n, a.d * k)

\* max(a, b): the first argument unless the second is greater
py_max(a, b) == IF lt(a, b) THEN b ELSE a

\* min(a, b): the first argument unless the second is smaller
py_min(a, b) == IF lt(b, a) THEN b ELSE a

\* round(x, 1): an int is returned as it is, NaN stays NaN, any other
\* number goes to the nearest tenth, a tie to the even one
round1(x) ==
    IF ~IsReal(x) THEN x
    ELSE IF x.d = 1 THEN x
    ELSE LET f == (10 * x.n) \div x.d
             r == 10 * x.n - f * x.d
         IN  IF 2 * r < x.d THEN Num(f, 10)
             ELSE IF 2 * r > x.d THEN Num(f + 1, 10)
             ELSE IF f % 2 = 0 THEN Num(f, 10)
             ELSE Num(f + 1, 10)

\* the sum of s[lo..hi], an empty range giving 0; the operands are exact,
\* so the order of the additions does not matter
RECURSIVE sum_range(_, _, _)
sum_range(s, lo, hi) ==
    IF lo > hi THEN IntVal(0)
    ELSE IF lo = hi THEN add(IntVal(0), s[lo])
    ELSE LET mid == (lo + hi) \div 2
         IN  add(sum_range(s, lo, mid), sum_range(s, mid + 1, hi))

\* sum(signal): starts from 0, raises TypeError on a non-number
py_sum(s) ==
    IF \E i \in 1..Len(s) : ~IsNumber(s[i]) THEN [t |-> "TypeError"]
    ELSE sum_range(s, 1, Len(s))

\* data.get(key, default); a JSON null comes back as None
get(data, key, default) == IF key \in DOMAIN data THEN data[key] ELSE default

HasLen(x) == x.t = "list"

(* ----------------------------- responses ------------------------------ *)

Response(status, json) == [status |-> status, json |-> json]
\* an exception escaping a view: the framework answers 500
InternalServerError == Response(500, [exception |-> "TypeError"])
Template(name) == Response(200, [template |-> name])

(* --------------------------- view functions --------------------------- *)

\* rule 4 tried before rule 3
determine_bp_category_s2_first(systolic, diastolic) ==
    IF lt(systolic, IntVal(120)) /\ lt(diastolic, IntVal(80)) THEN "Normal"
    ELSE IF le(IntVal(120), systolic) /\ lt(systolic, IntVal(130))
            /\ lt(diastolic, IntVal(80)) THEN "Elevated"
    ELSE IF ge(systolic, IntVal(140)) \/ ge(diastolic, IntVal(90))
         THEN "Hypertension Stage 2"
    ELSE IF (le(IntVal(130), systolic) /\ lt(systolic, IntVal(140)))
            \/ (le(IntVal(80), diastolic) /\ lt(diastolic, IntVal(90)))
         THEN "Hypertension Stage 1"
    ELSE "Unknown"

\* rule 2 reading diastolic <= 80
determine_bp_category_le80(systolic, diastolic) ==
    IF lt(systolic, IntVal(120)) /\ lt(diastolic, IntVal(80)) THEN "Normal"
    ELSE IF le(IntVal(120), systolic) /\ lt(systolic, IntVal(130))
            /\ le(diastolic, IntVal(80)) THEN "Elevated"
    ELSE IF (le(IntVal(130), systolic) /\ lt(systolic, IntVal(140)))
            \/ (le(IntVal(80), diastolic) /\ lt(diastolic, IntVal(90)))
         THEN "Hypertension Stage 1"
    ELSE IF ge(systolic, IntVal(140)) \/ ge(diastolic, IntVal(90))
         THEN "Hypertension Stage 2"
    ELSE "Unknown"

\* rule 4 reading systolic > 140
determine_bp_category_gt140(systolic, diastolic) ==
    IF lt(systolic, IntVal(120)) /\ lt(diastolic, IntVal(80)) THEN "Normal"
    ELSE IF le(IntVal(120), systolic) /\ lt(systolic, IntVal(130))
            /\ lt(diastolic, IntVal(80)) THEN "Elevated"
    ELSE IF (le(IntVal(130), systolic) /\ lt(systolic, IntVal(140)))
            \/ (le(IntVal(80), diastolic) /\ lt(diastolic, IntVal(90)))
         THEN "Hypertension Stage 1"
    ELSE IF lt(IntVal(140), systolic) \/ ge(diastolic, IntVal(90))
         THEN "Hypertension Stage 2"
    ELSE "Unknown"

determine_bp_category(systolic, diastolic) ==
    IF lt(systolic, IntVal(120)) /\ lt(diastolic, IntVal(80)) THEN "Normal"
    ELSE IF le(IntVal(120), systolic) /\ lt(systolic, IntVal(130))
            /\ lt(diastolic, IntVal(80)) THEN "Elevated"
    ELSE IF (le(IntVal(130), systolic) /\ lt(systolic, IntVal(140)))
            \/ (le(IntVal(80), diastolic) /\ lt(diastolic, IntVal(90)))
         THEN "Hypertension Stage 1"
    ELSE IF ge(systolic, IntVal(140)) \/ ge(diastolic, IntVal(90))
         THEN "Hypertension Stage 2"
    ELSE "Unknown"

\* the least length of a signal that is accepted
MinSignalLen == 100

\* 120 + (mean_signal - 128) * 0.3, before the clamp
raw_systolic(mean_signal) ==
    add(IntVal(120), mul(sub(mean_signal, IntVal(128)), Num(3, 10)))

\* 80 + (mean_signal - 128) * 0.2, before the clamp
raw_diastolic(mean_signal) ==
    add(IntVal(80), mul(sub(mean_signal, IntVal(128)), Num(2, 10)))

\* lines 43-51: classify, round, answer 200; comparing or rounding a value
\* that is no number raises TypeError
predict_result(systolic, diastolic) ==
    IF ~IsNumber(systolic) \/ ~IsNumber(diastolic) THEN InternalServerError
    ELSE Response(200, [systolic  |-> round1(systolic),
                        diastolic |-> round1(diastolic),
                        category  |-> determine_bp_category(systolic, diastolic),
                        success   |-> TRUE])

\* the signal branch accepting only len(signal) > 100
predict_signal_strict(data) ==
    LET signal == get(data, "signal", List(<<>>))
    IN  IF ~HasLen(signal) THEN InternalServerError
        ELSE IF Len(signal.v) > MinSignalLen
        THEN LET total == py_sum(signal.v)
                 mean_signal == div(total, Len(signal.v))
                 systolic  == py_min(IntVal(160), py_max(IntVal(90), raw_systolic(mean_signal)))
                 diastolic == py_min(IntVal(100), py_max(IntVal(60), raw_diastolic(mean_signal)))
             IN  IF ~IsNumber(total) THEN InternalServerError
                 ELSE predict_result(systolic, diastolic)
        ELSE Response(400, [error |-> "Insufficient signal data"])

\* the signal branch clamping diastolic with the bounds of systolic
predict_signal_copied_bounds(data) ==
    LET signal == get(data, "signal", List(<<>>))
    IN  IF ~HasLen(signal) THEN InternalServerError
        ELSE IF Len(signal.v) >= MinSignalLen
        THEN LET total == py_sum(signal.v)
                 mean_signal == div(total, Len(signal.v))
                 systolic  == py_min(IntVal(160), py_max(IntVal(90), raw_systolic(mean_signal)))
                 diastolic == py_min(IntVal(160), py_max(IntVal(90), raw_diastolic(mean_signal)))
             IN  IF ~IsNumber(total) THEN InternalServerError
                 ELSE predict_result(systolic, diastolic)
        ELSE Response(400, [error |-> "Insufficient signal data"])

\* the signal branch clamping with max(min(x, hi), lo)
predict_signal_swapped(data) ==
    LET signal == get(data, "signal", List(<<>>))
    IN  IF ~HasLen(signal) THEN InternalServerError
        ELSE IF Len(signal.v) >= MinSignalLen
        THEN LET total == py_sum(signal.v)
                 mean_signal == div(total, Len(signal.v))
                 systolic  == py_max(py_min(raw_systolic(mean_signal), IntVal(160)), IntVal(90))
                 diastolic == py_max(py_min(raw_diastolic(mean_signal), IntVal(100)), IntVal(60))
             IN  IF ~IsNumber(total) THEN InternalServerError
                 ELSE predict_result(systolic, diastolic)
        ELSE Response(400, [error |-> "Insufficient signal data"])

\* lines 24-34: the signal branch
predict_signal(data) ==
    LET signal == get(data, "signal", List(<<>>))
    IN  IF ~HasLen(signal) THEN InternalServerError
        ELSE IF Len(signal.v) >= MinSignalLen
        THEN LET total == py_sum(signal.v)
                 mean_signal == div(total, Len(signal.v))
                 systolic  == py_min(IntVal(160), py_max(IntVal(90), raw_systolic(mean_signal)))
                 diastolic == py_min(IntVal(100), py_max(IntVal(60), raw_diastolic(mean_signal)))
             IN  IF ~IsNumber(total) THEN InternalServerError
                 ELSE predict_result(systolic, diastolic)
        ELSE Response(400, [error |-> "Insufficient signal data"])

\* the legacy branch rejecting only when both readings are missing
predict_legacy_and(data) ==
    LET systolic  == get(data, "systolic", None)
        diastolic == get(data, "diastolic", None)
    IN  IF systolic = None /\ diastolic = None
        THEN Response(400, [error |-> "Invalid input"])
        ELSE predict_result(systolic, diastolic)

\* lines 36-41: the legacy branch
predict_legacy(data) ==
    LET systolic  == get(data, "systolic", None)
        diastolic == get(data, "diastolic", None)
    IN  IF systolic = None \/ diastolic = None
        THEN Response(400, [error |-> "Invalid input"])
        ELSE predict_result(systolic, diastolic)

\* a signal that is too short falling back on the explicit readings
predict_fallback(data) ==
    IF "signal" \in DOMAIN data /\ HasLen(data["signal"])
       /\ (Len(data["signal"].v) >= MinSignalLen \/ DOMAIN data = {"signal"})
    THEN predict_signal(data)
    ELSE IF "signal" \in DOMAIN data /\ ~HasLen(data["signal"]) THEN InternalServerError
    ELSE predict_legacy(data)

\* lines 19-22 and 35: the branch is chosen by the presence of the key
predict(data) ==
    IF "signal" \in DOMAIN data THEN predict_signal(data) ELSE predict_legacy(data)

\* export_session keeping a running total of the samples it has seen
export_session_counting(data) ==
    LET samples == get(data, "samples", List(<<>>))
        seen == IF stdout = <<>> THEN 0 ELSE stdout[1]
    IN  IF ~HasLen(samples)
        THEN [response |-> InternalServerError, printed |-> <<>>]
        ELSE [response |-> Response(200, [success |-> TRUE,
                               message |-> "Session data exported successfully",
                               total   |-> seen + Len(samples.v)]),
              printed  |-> <<Len(samples.v)>>]

\* the response of export_session and the lines it prints
export_session(data) ==
    LET samples == get(data, "samples", List(<<>>))
    IN  IF ~HasLen(samples)
        THEN [response |-> InternalServerError, printed |-> <<>>]
        ELSE [response |-> Response(200, [success |-> TRUE,
                               message |-> "Session data exported successfully"]),
              printed  |-> <<Len(samples.v)>>]

(* ------------------------------ requests ------------------------------ *)

Request(method, path, json) == [method |-> method, path |-> path, json |-> json]
NoRequest == Request("", "", None)
NoResponse == Response(0, None)

\* the JSON object {}
EmptyBody == [k \in {} |-> None]
\* stands for a key the body does not carry
Absent == [t |-> "absent"]
\* the JSON object {k: v}, or {} when v is Absent; objects are joined by @@
Field(k, v) == IF v = Absent THEN EmptyBody ELSE (k :> v)

\* a signal of len samples: k times the value b at the end, the value a before
MkSignal(len, a, b, k) == List([i \in 1..len |-> IF i <= len - k THEN a ELSE b])

SignalLens == {0} \cup ((MinSignalLen - Slack)..(MinSignalLen + Slack))
OddCounts(len) == {k \in (0..MaxOdd) \cup {len \div 2} : k <= len}
SampleVals == {IntVal(v) : v \in {-50, 0, 28, 127, 128, 129, 228, 255, 300}}
OddVals == SampleVals \cup {NaN, Str}

\* x lies exactly halfway between two tenths
IsTie(x) == IsReal(x) /\ (20 * x.n) % x.d = 0 /\ (10 * x.n) % x.d # 0

\* 0.3 and 0.2 are no binary fractions: where the exact value of a formula is
\* a tie, the float the program holds lies a hair to one side of it and that
\* side decides round(x, 1).  Such signals are left out of the inputs.
TieFree(g) ==
    (HasLen(g) /\ Len(g.v) >= MinSignalLen /\ IsReal(py_sum(g.v))) =>
        LET mean_signal == div(py_sum(g.v), Len(g.v))
        IN  ~IsTie(raw_systolic(mean_signal)) /\ ~IsTie(raw_diastolic(mean_signal))

Signals ==
    {g \in {MkSignal(len, a, b, k) :
              <<len, a, b, k>> \in {q \in SignalLens \X SampleVals \X OddVals
                                           \X (0..(MinSignalLen + Slack)) :
                                       q[4] \in OddCounts(q[1])}} :
        TieFree(g)}
    \cup {None, IntVal(5)}

SysVals ==
    {IntVal(v) : v \in {-5, 0, 89, 118, 119, 120, 125, 129, 130, 135, 139, 140, 145, 161, 1000}}
    \cup {Num(11996, 100), Num(12004, 100)}
DiaVals ==
    {IntVal(v) : v \in {-5, 0, 59, 75, 78, 79, 80, 85, 89, 90, 95, 101, 1000}}
    \cup {Num(7996, 100), Num(8994, 100)}
NoReading == {Absent, None, Str, NaN}

LegacyBodies ==
    {Field("systolic", s) @@ Field("diastolic", d) :
        s \in SysVals \cup NoReading, d \in DiaVals \cup NoReading}

SignalBodies == {Field("signal", g) : g \in Signals}

\* a signal together with explicit readings
MixedSignals ==
    {MkSignal(len, a, a, 0) : len \in SignalLens, a \in {IntVal(128), IntVal(300)}} \cup {None}
MixedBodies ==
    {Field("signal", g) @@ Field("systolic", s) @@ Field("diastolic", d) :
        g \in MixedSignals,
        s \in {IntVal(118), IntVal(145), Absent},
        d \in {IntVal(75), IntVal(95), Absent}}

ExportBodies ==
    {Field("samples", x) :
        x \in {List([i \in 1..k |-> Str]) : k \in 0..MaxSamples} \cup {Absent, None, IntVal(5)}}

PageRequests == {Request("GET", p, None) : p \in {"/", "/vasovue", "/report", "/results"}}
PredictRequests ==
    {Request("POST", "/api/predict", b) : b \in LegacyBodies \cup SignalBodies \cup MixedBodies}
ExportRequests == {Request("POST", "/api/export", b) : b \in ExportBodies}
Requests == PageRequests \cup PredictRequests \cup ExportRequests

(* --------------------------- the application --------------------------- *)

InitFor(W) ==
    /\ pc = [w \in W |-> "idle"]
    /\ request = [w \in W |-> NoRequest]
    /\ response = [w \in W |-> NoResponse]
    /\ stdout = <<>>

\* the framework hands request r to context w
Receive(w, r) ==
    /\ pc[w] = "idle"
    /\ pc' = [pc EXCEPT ![w] = "handling"]
    /\ request' = [request EXCEPT ![w] = r]
    /\ UNCHANGED <<response, stdout>>

\* the route of the request held by context w
Routed(w, method, path) ==
    /\ pc[w] = "handling"
    /\ request[w].method = method
    /\ request[w].path = path

\* the view returns resp after printing the lines of printed
Return(w, resp, printed) ==
    /\ pc' = [pc EXCEPT ![w] = "done"]
    /\ response' = [response EXCEPT ![w] = resp]
    /\ stdout' = IF printed = <<>> THEN stdout ELSE printed
    /\ UNCHANGED request

index(w) == Routed(w, "GET", "/") /\ Return(w, Template("index_new.html"), <<>>)

vasovue(w) == Routed(w, "GET", "/vasovue") /\ Return(w, Template("index_new.html"), <<>>)

report(w) == Routed(w, "GET", "/report") /\ Return(w, Template("report.html"), <<>>)

results(w) == Routed(w, "GET", "/results") /\ Return(w, Template("results.html"), <<>>)

Predict(w) ==
    /\ Routed(w, "POST", "/api/predict")
    /\ Return(w, predict(request[w].json), <<>>)

ExportSession(w) ==
    /\ Routed(w, "POST", "/api/export")
    /\ LET r == export_session(request[w].json)
       IN  Return(w, r.response, r.printed)

\* the response is sent and the request context is dropped
Teardown(w) ==
    /\ pc[w] = "done"
    /\ pc' = [pc EXCEPT ![w] = "idle"]
    /\ request' = [request EXCEPT ![w] = NoRequest]
    /\ response' = [response EXCEPT ![w] = NoResponse]
    /\ UNCHANGED stdout

Init == InitFor({1})

Next ==
    \/ \E w \in DOMAIN pc, r \in Requests : Receive(w, r)
    \/ \E w \in DOMAIN pc : index(w)
    \/ \E w \in DOMAIN pc : vasovue(w)
    \/ \E w \in DOMAIN pc : report(w)
    \/ \E w \in DOMAIN pc : results(w)
    \/ \E w \in DOMAIN pc : Predict(w)
    \/ \E w \in DOMAIN pc : ExportSession(w)
    \/ \E w \in DOMAIN pc : Teardown(w)

Spec == Init /\ [][Next]_vars

(* Two requests in flight at once (the development server answers each    *)
(* request on a thread of its own), over a small set of requests.         *)

PairBodies ==
    {Field("signal", MkSignal(MinSignalLen, IntVal(128), IntVal(128), 0)),
     Field("signal", MkSignal(MinSignalLen - 1, IntVal(128), IntVal(128), 0)),
     Field("signal", MkSignal(MinSignalLen, IntVal(300), IntVal(300), 0))
        @@ Field("systolic", IntVal(118)) @@ Field("diastolic", IntVal(75)),
     Field("systolic", IntVal(118)) @@ Field("diastolic", IntVal(75)),
     Field("systolic", IntVal(145)) @@ Field("diastolic", IntVal(95)),
     Field("systolic", IntVal(145))}

PairRequests ==
    PageRequests
    \cup {Request("POST", "/api/predict", b) : b \in PairBodies}
    \cup ExportRequests

InitPair == InitFor({1, 2})

NextPair ==
    \/ \E w \in DOMAIN pc, r \in PairRequests : Receive(w, r)
    \/ \E w \in DOMAIN pc : index(w)
    \/ \E w \in DOMAIN pc : vasovue(w)
    \/ \E w \in DOMAIN pc : report(w)
    \/ \E w \in DOMAIN pc : results(w)
    \/ \E w \in DOMAIN pc : Predict(w)
    \/ \E w \in DOMAIN pc : ExportSession(w)
    \/ \E w \in DOMAIN pc : Teardown(w)

SpecPair == InitPair /\ [][NextPair]_vars

(* ------------------------------- claims -------------------------------- *)

Contexts == DOMAIN pc
\* context w holds the answer of the view of path
Answered(w, path) == pc[w] = "done" /\ request[w].path = path
Body(w) == request[w].json
Status(w) == response[w].status
Json(w) == response[w].json

\* a legacy request: no signal key in the body
LegacyCase(w) == Answered(w, "/api/predict") /\ "signal" \notin DOMAIN Body(w)
\* a signal-based request
SignalCase(w) == Answered(w, "/api/predict") /\ "signal" \in DOMAIN Body(w)
SignalOf(w) == Body(w)["signal"]
ShortSignal(w) == SignalCase(w) /\ HasLen(SignalOf(w)) /\ Len(SignalOf(w).v) < MinSignalLen
\* a signal of at least 100 numbers
LongSignal(w) ==
    /\ SignalCase(w) /\ HasLen(SignalOf(w)) /\ Len(SignalOf(w).v) >= MinSignalLen
    /\ \A i \in 1..Len(SignalOf(w).v) : IsNumber(SignalOf(w).v[i])
MeanOf(w) == div(py_sum(SignalOf(w).v), Len(SignalOf(w).v))
Given(w, k) == get(Body(w), k, Absent)

Between(lo, x, hi) == le(IntVal(lo), x) /\ le(x, IntVal(hi))
\* x is a multiple of 0.1 at most 0.05 away from y
RoundedFrom(x, y) ==
    /\ IsReal(x) /\ (10 * x.n) % x.d = 0
    /\ le(sub(x, y), Num(1, 20)) /\ le(sub(y, x), Num(1, 20))
FormulaSystolic(m) == add(IntVal(120), mul(sub(m, IntVal(128)), Num(3, 10)))
FormulaDiastolic(m) == add(IntVal(80), mul(sub(m, IntVal(128)), Num(2, 10)))
Clamped(lo, x, hi) ==
    IF lt(x, IntVal(lo)) \/ ~IsReal(x) THEN IntVal(lo)
    ELSE IF lt(IntVal(hi), x) THEN IntVal(hi) ELSE x

Rule1(s, d) == lt(s, IntVal(120)) /\ lt(d, IntVal(80))
Rule2(s, d) == le(IntVal(120), s) /\ lt(s, IntVal(130)) /\ lt(d, IntVal(80))
Rule3(s, d) ==
    \/ le(IntVal(130), s) /\ lt(s, IntVal(140))
    \/ le(IntVal(80), d) /\ lt(d, IntVal(90))
Rule4(s, d) == ge(s, IntVal(140)) \/ ge(d, IntVal(90))
LegacyPair(w, s, d) ==
    LegacyCase(w) /\ Given(w, "systolic") = IntVal(s) /\ Given(w, "diastolic") = IntVal(d)
Categories == {"Normal", "Elevated", "Hypertension Stage 1", "Hypertension Stage 2"}

\* C1: for every pair of numbers the category is the label of the first rule
\* that matches, rules 1 to 4 tried in this order and Unknown when none does;
\* a pair matching rules 3 and 4 (145/85) is Hypertension Stage 1, and
\* 118/75, 125/78, 135/85, 145/95 give Normal, Elevated, Hypertension
\* Stage 1, Hypertension Stage 2.
C1_FirstMatchWins ==
    \A w \in Contexts :
        LET s == Given(w, "systolic")
            d == Given(w, "diastolic")
        IN  /\ (LegacyCase(w) /\ IsNumber(s) /\ IsNumber(d)) =>
                /\ Status(w) = 200
                /\ Rule1(s, d) => Json(w).category = "Normal"
                /\ (~Rule1(s, d) /\ Rule2(s, d)) => Json(w).category = "Elevated"
                /\ (~Rule1(s, d) /\ ~Rule2(s, d) /\ Rule3(s, d))
                       => Json(w).category = "Hypertension Stage 1"
                /\ (~Rule1(s, d) /\ ~Rule2(s, d) /\ ~Rule3(s, d) /\ Rule4(s, d))
                       => Json(w).category = "Hypertension Stage 2"
                /\ (~Rule1(s, d) /\ ~Rule2(s, d) /\ ~Rule3(s, d) /\ ~Rule4(s, d))
                       => Json(w).category = "Unknown"
            /\ LegacyPair(w, 145, 85) => Json(w).category = "Hypertension Stage 1"
            /\ LegacyPair(w, 118, 75) => Json(w).category = "Normal"
            /\ LegacyPair(w, 125, 78) => Json(w).category = "Elevated"
            /\ LegacyPair(w, 135, 85) => Json(w).category = "Hypertension Stage 1"
            /\ LegacyPair(w, 145, 95) => Json(w).category = "Hypertension Stage 2"

\* a pair matching rule 3 and rule 4 has been classified
C1_Witness ==
    \E w \in Contexts : LegacyPair(w, 145, 85) /\ Status(w) = 200

\* the mean of the signal is exactly 128
Mean128(w) == LongSignal(w) /\ eq(MeanOf(w), IntVal(128))

\* C2 as stated: a signal of length >= 100 with mean exactly 128 is answered
\* 200 with systolic 120.0, diastolic 80.0 and category Elevated.
C2_Mean128Elevated ==
    \A w \in Contexts :
        Mean128(w) =>
            /\ Status(w) = 200
            /\ eq(Json(w).systolic, IntVal(120))
            /\ eq(Json(w).diastolic, IntVal(80))
            /\ Json(w).category = "Elevated"

\* C2 amended: a signal of length >= 100 with mean exactly 128 is answered
\* 200 with systolic 120.0, diastolic 80.0 and category Hypertension Stage 1
\* (diastolic 80.0 is not below 80, so rule 2 does not match and rule 3 does).
C2_Mean128Stage1 ==
    \A w \in Contexts :
        Mean128(w) =>
            /\ Status(w) = 200
            /\ eq(Json(w).systolic, IntVal(120))
            /\ eq(Json(w).diastolic, IntVal(80))
            /\ Json(w).category = "Hypertension Stage 1"

\* a signal of 127s and 129s with mean 128 has been answered
C2_Witness ==
    \E w \in Contexts :
        /\ Mean128(w) /\ Status(w) = 200
        /\ SignalOf(w).v[1] # IntVal(128)

\* C3 as stated: every signal-based request answered 200 returns systolic in
\* [90, 160] and diastolic in [60, 100], and inside those bounds they equal
\* 120 + (mean - 128) * 0.3 and 80 + (mean - 128) * 0.2.
C3_ClampedExact ==
    \A w \in Contexts :
        (SignalCase(w) /\ Status(w) = 200) =>
            LET rs == FormulaSystolic(MeanOf(w))
                rd == FormulaDiastolic(MeanOf(w))
            IN  /\ Between(90, Json(w).systolic, 160)
                /\ Between(60, Json(w).diastolic, 100)
                /\ Between(90, rs, 160) => eq(Json(w).systolic, rs)
                /\ Between(60, rd, 100) => eq(Json(w).diastolic, rd)

\* C3 amended: every signal-based request answered 200 returns systolic in
\* [90, 160] and diastolic in [60, 100], and inside those bounds they are
\* 120 + (mean - 128) * 0.3 and 80 + (mean - 128) * 0.2 rounded to one
\* decimal place.
C3_ClampedRounded ==
    \A w \in Contexts :
        (SignalCase(w) /\ Status(w) = 200) =>
            LET rs == FormulaSystolic(MeanOf(w))
                rd == FormulaDiastolic(MeanOf(w))
            IN  /\ Between(90, Json(w).systolic, 160)
                /\ Between(60, Json(w).diastolic, 100)
                /\ Between(90, rs, 160) => RoundedFrom(Json(w).systolic, rs)
                /\ Between(60, rd, 100) => RoundedFrom(Json(w).diastolic, rd)

\* a value inside the bounds that is no multiple of 0.1 has been returned
\* rounded, next to a diastolic held at its upper bound
C3_Witness ==
    \E w \in Contexts :
        /\ SignalCase(w) /\ Status(w) = 200
        /\ Between(90, FormulaSystolic(MeanOf(w)), 160)
        /\ ~eq(Json(w).systolic, FormulaSystolic(MeanOf(w)))
        /\ lt(IntVal(100), FormulaDiastolic(MeanOf(w)))
        /\ eq(Json(w).diastolic, IntVal(100))

C5_LegacyMissingReading ==
    \A w \in Contexts :
        LegacyCase(w) =>
            /\ ("systolic" \notin DOMAIN Body(w) \/ "diastolic" \notin DOMAIN Body(w)) =>
                   /\ Status(w) = 400
                   /\ Json(w) = [error |-> "Invalid input"]
                   /\ "category" \notin DOMAIN Json(w)
            /\ (IsNumber(Given(w, "systolic")) /\ IsNumber(Given(w, "diastolic"))) =>
                   (Status(w) = 200 /\ Json(w).success = TRUE)

\* a legacy request with systolic given and diastolic absent has been refused
C5_Witness ==
    \E w \in Contexts :
        /\ LegacyCase(w) /\ Status(w) = 400
        /\ IsReal(Given(w, "systolic")) /\ "diastolic" \notin DOMAIN Body(w)

\* C6: /api/export answers every JSON body with 200, success = true and the
\* message "Session data exported successfully", whatever its samples field
\* holds and also when it is absent; it has no failure path.
C6_ExportAlwaysSucceeds ==
    \A w \in Contexts :
        Answered(w, "/api/export") =>
            /\ Status(w) = 200
            /\ Json(w) = [success |-> TRUE, message |-> "Session data exported successfully"]

C8_SignalNeverUnknown ==
    \A w \in Contexts :
        (SignalCase(w) /\ Status(w) = 200) => Json(w).category \in Categories

\* a signal holding a NaN sample has been answered 200
C8_Witness ==
    \E w \in Contexts :
        /\ SignalCase(w) /\ Status(w) = 200
        /\ \E i \in 1..Len(SignalOf(w).v) : SignalOf(w).v[i] = NaN

\* both readings are given as numbers next to the signal
Mixed(w) ==
    SignalCase(w) /\ IsReal(Given(w, "systolic")) /\ IsReal(Given(w, "diastolic"))

\* C9: a body with a signal field and valid systolic and diastolic fields is
\* handled by the signal branch alone: a signal shorter than 100 is answered
\* 400 "Insufficient signal data", and a signal of length >= 100 returns the
\* values derived from the signal mean, not the supplied readings.
C9_SignalBranchAlone ==
    \A w \in Contexts :
        Mixed(w) =>
            /\ ShortSignal(w) =>
                   (Status(w) = 400 /\ Json(w) = [error |-> "Insufficient signal data"])
            /\ LongSignal(w) =>
                   /\ Status(w) = 200
                   /\ RoundedFrom(Json(w).systolic,
                                  Clamped(90, FormulaSystolic(MeanOf(w)), 160))
                   /\ RoundedFrom(Json(w).diastolic,
                                  Clamped(60, FormulaDiastolic(MeanOf(w)), 100))
            /\ ~HasLen(SignalOf(w)) => Status(w) = 500

\* readings were supplied next to a long signal and the values returned
\* differ from both of them
C9_Witness ==
    \E w \in Contexts :
        /\ Mixed(w) /\ LongSignal(w) /\ Status(w) = 200
        /\ ~eq(Json(w).systolic, Given(w, "systolic"))
        /\ ~eq(Json(w).diastolic, Given(w, "diastolic"))

\* C10: a legacy request whose systolic and diastolic are both numbers, also
\* outside [90, 160] and [60, 100], is classified on the values as given
\* (they are returned unclamped) and its category is never Unknown.
C10_LegacyNumbersClassified ==
    \A w \in Contexts :
        (LegacyCase(w) /\ IsReal(Given(w, "systolic")) /\ IsReal(Given(w, "diastolic"))) =>
            /\ Status(w) = 200
            /\ Json(w).category \in Categories
            /\ RoundedFrom(Json(w).systolic, Given(w, "systolic"))
            /\ RoundedFrom(Json(w).diastolic, Given(w, "diastolic"))

\* readings outside both clamped ranges have been classified
C10_Witness ==
    \E w \in Contexts :
        /\ LegacyCase(w) /\ Status(w) = 200
        /\ lt(IntVal(160), Given(w, "systolic")) /\ lt(Given(w, "diastolic"), IntVal(60))

====
